---------------------------- MODULE Spec2Model ----------------------------
(***************************************************************************)
(* Model of src/main.cpp: an SDL3 callback application (SDL_AppInit,       *)
(* SDL_AppEvent, SDL_AppIterate, SDL_AppQuit) that draws two textured      *)
(* quads with OpenGL and plays a looping track.                            *)
(*                                                                         *)
(* Every function of the program is an operator that returns the calls it  *)
(* issues to the libraries (SDL, SDL_ttf, SDL_image, SDL_mixer, OpenGL),   *)
(* in order, together with its result.  The libraries are the environment: *)
(* a call whose result the program tests may fail, and the set F of the    *)
(* calls that fail is chosen by the environment.  The callbacks are run by *)
(* SDL's main-callback runtime (selected by SDL_MAIN_USE_CALLBACKS), one   *)
(* at a time; each callback is one action which appends the calls of the   *)
(* whole handler to the history variable log.                              *)
(*                                                                         *)
(* Diagnostics (SDL_Log, SDL_LogError, shader info logs) are not recorded. *)
(* Floats are integers; the clear colour is a function of SDL_GetTicks     *)
(* and is recorded by the tick value only.                                 *)
(***************************************************************************)
EXTENDS Integers, Sequences, FiniteSets, TLC

VARIABLES
  platform,     \* build variant: which #ifdef branches are compiled
  phase,        \* position of the SDL runtime: "start", "running", "initfailed", "done"
  appstate,     \* the void* the runtime keeps: "NULL" or "app"
  app,          \* the AppContext object
  appAlive,     \* TRUE between new AppContext and delete app
  log,          \* history: every library call issued so far, with callback markers
  winPx,        \* SDL_GetWindowSizeInPixels of the window
  unpackAlign,  \* GL_UNPACK_ALIGNMENT of the GL context
  textures,     \* texture names generated and not deleted
  frames,       \* number of SDL_AppIterate calls so far
  events,       \* number of SDL_AppEvent calls so far
  initRet,      \* what SDL_AppInit returned ("none" before)
  quitResult,   \* the result the runtime passes to SDL_AppQuit ("none" before)
  probeIn,      \* input of the function under test (function-level specifications)
  probeOut      \* its output

vars == <<platform, phase, appstate, app, appAlive, log, winPx, unpackAlign,
          textures, frames, events, initRet, quitResult, probeIn, probeOut>>

-----------------------------------------------------------------------------
(* Bounds *)

MaxFailures == 2
MaxFrames == 2
MaxEvents == 2
MaxCoord == 2

(* Program constants *)

windowStartWidth == 400
windowStartHeight == 400

NULL == "NULL"
SDL_APP_CONTINUE == "SDL_APP_CONTINUE"
SDL_APP_SUCCESS == "SDL_APP_SUCCESS"
SDL_APP_FAILURE == "SDL_APP_FAILURE"

Platforms == {"desktop", "emscripten", "android"}

\* #ifdef __EMSCRIPTEN__
Emscripten(plat) == plat = "emscripten"

\* #if __ANDROID__
Android(plat) == plat = "android"

-----------------------------------------------------------------------------
(* Library calls *)

\* One call: the function, the object it acts on, its other arguments, and
\* its result for the calls whose result the program tests.
Call(op, obj, args, ret) == [op |-> op, obj |-> obj, args |-> args, ret |-> ret]

Void(op, obj, args) == Call(op, obj, args, "-")

\* A fallible call at fail point p under the environment's choice F.
Failed(F, p) == p \in F

Tested(op, obj, args, F, p) ==
  Call(op, obj, args, IF Failed(F, p) THEN "fail" ELSE "ok")

\* Sequencing: the calls c, then the rest of the function, whose result is
\* the function's result
Then(c, rest) == [rest EXCEPT !.calls = c \o @]


-----------------------------------------------------------------------------
(* OpenGL helpers *)

\* struct GLTexture, default-initialised
GLTexture == [id |-> 0, width |-> 0, height |-> 0]

\* struct GLRenderer, default-initialised (the shader fields exist in the
\* Emscripten build only and keep their defaults elsewhere)
GLRenderer ==
  [context |-> NULL, program |-> 0, vbo |-> 0,
   uResolutionLoc |-> -1, uTextureLoc |-> -1, aPosLoc |-> -1, aUVLoc |-> -1]

\* The functions LOAD_GL_FUNC loads, in order
GLES2Funcs ==
  <<"glCreateShader", "glShaderSource", "glCompileShader", "glGetShaderiv",
    "glGetShaderInfoLog", "glDeleteShader", "glCreateProgram", "glAttachShader",
    "glLinkProgram", "glGetProgramiv", "glGetProgramInfoLog", "glUseProgram",
    "glGetUniformLocation", "glGetAttribLocation", "glGenBuffers",
    "glDeleteBuffers", "glBindBuffer", "glBufferData",
    "glEnableVertexAttribArray", "glVertexAttribPointer", "glDrawArrays",
    "glUniform2f", "glUniform1i", "glActiveTexture",
    "glDisableVertexAttribArray">>

\* LOAD_GL_FUNC(name) for the functions from the i-th on: the first pointer
\* that SDL_GL_GetProcAddress does not resolve makes the function return false.
RECURSIVE LoadFrom(_, _, _)
LoadFrom(i, F, done) ==
  IF i > Len(GLES2Funcs) THEN [calls |-> done, ok |-> TRUE]
  ELSE LET name == GLES2Funcs[i]
           p == <<"SDL_GL_GetProcAddress", name>>
           c == Tested("SDL_GL_GetProcAddress", name, <<>>, F, p)
       IN IF Failed(F, p) THEN [calls |-> Append(done, c), ok |-> FALSE]
          ELSE LoadFrom(i + 1, F, Append(done, c))

LoadGLES2Functions(F) == LoadFrom(1, F, <<>>)

\* The name glCreateShader gives a shader of this type
ShaderName(type) == IF type = "GL_VERTEX_SHADER" THEN 1 ELSE 2

CompileShader(type, F) ==
  LET pc == <<"glCreateShader", type>>
      ps == <<"glCompileShader", type>>
      shader == IF Failed(F, pc) THEN 0 ELSE ShaderName(type)
  IN
  Then(<<Tested("glCreateShader", "-", <<type>>, F, pc)>>,
  IF shader = 0 THEN [calls |-> <<>>, shader |-> 0] ELSE
  Then(<<Void("glShaderSource", "-", <<shader>>),
         Void("glCompileShader", "-", <<shader>>),
         Tested("glGetShaderiv", "-", <<shader, "GL_COMPILE_STATUS">>, F, ps)>>,
  IF Failed(F, ps)
  THEN [calls |-> <<Void("glGetShaderiv", "-", <<shader, "GL_INFO_LOG_LENGTH">>),
                    Void("glDeleteShader", "-", <<shader>>)>>,
        shader |-> 0]
  ELSE [calls |-> <<>>, shader |-> shader]))

CreateTexturedQuadProgram(F) ==
  LET vertex == CompileShader("GL_VERTEX_SHADER", F)
      fragment == CompileShader("GL_FRAGMENT_SHADER", F)
      vs == vertex.shader
      fs == fragment.shader
      pp == <<"glCreateProgram">>
      pl == <<"glLinkProgram">>
      prog == IF Failed(F, pp) THEN 0 ELSE 3
  IN
  Then(vertex.calls,
  IF vs = 0 THEN [calls |-> <<>>, prog |-> 0] ELSE
  Then(fragment.calls,
  IF fs = 0
  THEN [calls |-> <<Void("glDeleteShader", "-", <<vs>>)>>, prog |-> 0] ELSE
  Then(<<Tested("glCreateProgram", "-", <<>>, F, pp)>>,
  IF prog = 0
  THEN [calls |-> <<Void("glDeleteShader", "-", <<vs>>),
                    Void("glDeleteShader", "-", <<fs>>)>>,
        prog |-> 0] ELSE
  Then(<<Void("glAttachShader", "-", <<prog, vs>>),
         Void("glAttachShader", "-", <<prog, fs>>),
         Void("glLinkProgram", "-", <<prog>>),
         Void("glDeleteShader", "-", <<vs>>),
         Void("glDeleteShader", "-", <<fs>>),
         Tested("glGetProgramiv", "-", <<prog, "GL_LINK_STATUS">>, F, pl)>>,
  IF Failed(F, pl)
  THEN [calls |-> <<Void("glGetProgramiv", "-", <<prog, "GL_INFO_LOG_LENGTH">>),
                    Void("glDeleteProgram", "-", <<prog>>)>>,
        prog |-> 0]
  ELSE [calls |-> <<>>, prog |-> prog]))))

\* glGetUniformLocation / glGetAttribLocation: -1 when the name is not found
Location(F, op, name, loc) == IF Failed(F, <<op, name>>) THEN -1 ELSE loc

\* glMatrixMode .. glLoadIdentity of the immediate-mode projection
OrthoCalls(w, h) ==
  <<Void("glMatrixMode", "-", <<"GL_PROJECTION">>),
    Void("glLoadIdentity", "-", <<>>),
    Void("glOrtho", "-", <<0, w, h, 0, -1, 1>>),
    Void("glMatrixMode", "-", <<"GL_MODELVIEW">>),
    Void("glLoadIdentity", "-", <<>>)>>

\* InitGL has returned: its result and the fields of out written so far
InitGLReturn(ok, context, program, locs, vbo) ==
  [ok |-> ok, calls |-> <<>>,
   out |-> [GLRenderer EXCEPT !.context = context, !.program = program,
                              !.uResolutionLoc = locs[1], !.uTextureLoc = locs[2],
                              !.aPosLoc = locs[3], !.aUVLoc = locs[4], !.vbo = vbo]]

\* bool InitGL(SDL_Window *window, GLRenderer &out): [ok, out, calls]
InitGL(window, F, px, plat) ==
  LET pctx == <<"SDL_GL_CreateContext">>
      pcur == <<"SDL_GL_MakeCurrent">>
      pvbo == <<"glGenBuffers">>
      context == IF Failed(F, pctx) THEN NULL ELSE "glctx"
      w == px[1]
      h == px[2]
      load == LoadGLES2Functions(F)
      quad == CreateTexturedQuadProgram(F)
      program == quad.prog
      unset == <<GLRenderer.uResolutionLoc, GLRenderer.uTextureLoc,
                 GLRenderer.aPosLoc, GLRenderer.aUVLoc>>
      locs == <<Location(F, "glGetUniformLocation", "uResolution", 0),
                Location(F, "glGetUniformLocation", "uTexture", 1),
                Location(F, "glGetAttribLocation", "aPos", 0),
                Location(F, "glGetAttribLocation", "aUV", 1)>>
      vbo == IF Failed(F, pvbo) THEN 0 ELSE 1
  IN
  Then(<<Void("SDL_GL_SetAttribute", "-", <<"SDL_GL_CONTEXT_MAJOR_VERSION", 2>>),
         Void("SDL_GL_SetAttribute", "-", <<"SDL_GL_CONTEXT_MINOR_VERSION", 1>>),
         Void("SDL_GL_SetAttribute", "-", <<"SDL_GL_DOUBLEBUFFER", 1>>),
         Void("SDL_GL_SetAttribute", "-", <<"SDL_GL_DEPTH_SIZE", 24>>),
         Tested("SDL_GL_CreateContext", window, <<>>, F, pctx)>>,
  IF context = NULL THEN InitGLReturn(FALSE, context, 0, unset, 0) ELSE
  Then(<<Tested("SDL_GL_MakeCurrent", window, <<context>>, F, pcur)>>,
  IF Failed(F, pcur) THEN InitGLReturn(FALSE, context, 0, unset, 0) ELSE
  Then(IF Emscripten(plat) THEN load.calls ELSE <<>>,
  IF Emscripten(plat) /\ ~load.ok
  THEN InitGLReturn(FALSE, context, 0, unset, 0) ELSE
  Then(<<Void("SDL_GL_SetSwapInterval", "-", <<1>>),
         Void("SDL_GetWindowSizeInPixels", window, <<>>),
         Void("glViewport", "-", <<0, 0, w, h>>)>>
       \o (IF Emscripten(plat) THEN <<>>
           ELSE OrthoCalls(w, h) \o <<Void("glEnable", "-", <<"GL_TEXTURE_2D">>)>>)
       \o <<Void("glEnable", "-", <<"GL_BLEND">>),
            Void("glBlendFunc", "-", <<"GL_SRC_ALPHA", "GL_ONE_MINUS_SRC_ALPHA">>)>>,
  IF ~Emscripten(plat) THEN InitGLReturn(TRUE, context, 0, unset, 0) ELSE
  Then(quad.calls,
  IF program = 0 THEN InitGLReturn(FALSE, context, program, unset, 0) ELSE
  Then(<<Void("glUseProgram", "-", <<program>>),
         Tested("glGetUniformLocation", "-", <<program, "uResolution">>,
                F, <<"glGetUniformLocation", "uResolution">>),
         Tested("glGetUniformLocation", "-", <<program, "uTexture">>,
                F, <<"glGetUniformLocation", "uTexture">>),
         Tested("glGetAttribLocation", "-", <<program, "aPos">>,
                F, <<"glGetAttribLocation", "aPos">>),
         Tested("glGetAttribLocation", "-", <<program, "aUV">>,
                F, <<"glGetAttribLocation", "aUV">>)>>,
  IF \E i \in 1..4 : locs[i] = -1
  THEN InitGLReturn(FALSE, context, program, locs, 0) ELSE
  Then(<<Tested("glGenBuffers", "-", <<1>>, F, pvbo)>>,
  IF vbo = 0 THEN InitGLReturn(FALSE, context, program, locs, vbo) ELSE
  Then(<<Void("glActiveTexture", "-", <<"GL_TEXTURE0">>),
         Void("glUniform1i", "-", <<locs[2], 0>>),
         Void("glDisable", "-", <<"GL_DEPTH_TEST">>)>>,
  InitGLReturn(TRUE, context, program, locs, vbo)))))))))

\* Mutant of ShutdownGL: the context is destroyed while it is still current
ShutdownGL_DestroyFirst(window, renderer, plat) ==
  LET cv == IF Emscripten(plat) /\ renderer.vbo # 0
            THEN <<Void("glDeleteBuffers", "-", <<1, renderer.vbo>>)>> ELSE <<>>
      r1 == IF Emscripten(plat) THEN [renderer EXCEPT !.vbo = 0] ELSE renderer
      cp == IF Emscripten(plat) /\ r1.program # 0
            THEN <<Void("glDeleteProgram", "-", <<r1.program>>)>> ELSE <<>>
      r2 == IF Emscripten(plat) THEN [r1 EXCEPT !.program = 0] ELSE r1
  IN IF r2.context # NULL
     THEN [renderer |-> [r2 EXCEPT !.context = NULL],
           calls |-> cv \o cp
                     \o <<Void("SDL_GL_DestroyContext", r2.context, <<>>),
                          Void("SDL_GL_MakeCurrent", window, <<NULL>>)>>]
     ELSE [renderer |-> r2, calls |-> cv \o cp]

\* void ShutdownGL(SDL_Window *window, GLRenderer &renderer): [renderer, calls]
ShutdownGL(window, renderer, plat) ==
  LET cv == IF Emscripten(plat) /\ renderer.vbo # 0
            THEN <<Void("glDeleteBuffers", "-", <<1, renderer.vbo>>)>> ELSE <<>>
      r1 == IF Emscripten(plat) THEN [renderer EXCEPT !.vbo = 0] ELSE renderer
      cp == IF Emscripten(plat) /\ r1.program # 0
            THEN <<Void("glDeleteProgram", "-", <<r1.program>>)>> ELSE <<>>
      r2 == IF Emscripten(plat) THEN [r1 EXCEPT !.program = 0] ELSE r1
  IN IF r2.context # NULL
     THEN [renderer |-> [r2 EXCEPT !.context = NULL],
           calls |-> cv \o cp
                     \o <<Void("SDL_GL_MakeCurrent", window, <<NULL>>),
                          Void("SDL_GL_DestroyContext", r2.context, <<>>)>>]
     ELSE [renderer |-> r2, calls |-> cv \o cp]

-----------------------------------------------------------------------------
(* Textures *)

\* An SDL_Surface: its handle, its size and its pixel format
Surface(name, w, h, format) == [name |-> name, w |-> w, h |-> h, format |-> format]

NullSurface == Surface(NULL, 0, 0, "-")

\* The handle SDL_ConvertSurface returns for a surface
RgbaName(name) ==
  CASE name = "surfaceMessage" -> "rgba_of_surfaceMessage"
    [] name = "svg_surface" -> "rgba_of_svg_surface"
    [] OTHER -> "rgba_of_surface"

\* SDL_ConvertSurface(surface, SDL_PIXELFORMAT_RGBA32): a new surface of the
\* same size in the requested format, or NULL
SDL_ConvertSurface(surface, format, F) ==
  IF Failed(F, <<"SDL_ConvertSurface", surface.name>>) THEN NullSurface
  ELSE Surface(RgbaName(surface.name), surface.w, surface.h, format)

\* glGenTextures(1, &id): an unused name
FreshTexture(g) == CHOOSE n \in 1..(Cardinality(g.textures) + 1) : n \notin g.textures

\* glPixelStorei(GL_UNPACK_ALIGNMENT, v): values other than 1, 2, 4, 8 are
\* rejected (GL_INVALID_VALUE) and change nothing
glPixelStorei(g, v) == IF v \in {1, 2, 4, 8} THEN [g EXCEPT !.align = v] ELSE g

\* The calls of CreateTextureFromSurface from glGenTextures to glTexImage2D
UploadCalls(surface, rgba, F, id, prevAlign) ==
  <<Tested("glGenTextures", "-", <<1>>, F, <<"glGenTextures", surface.name>>),
    Void("glBindTexture", "-", <<"GL_TEXTURE_2D", id>>),
    Void("glTexParameteri", "-", <<"GL_TEXTURE_2D", "GL_TEXTURE_MIN_FILTER", "GL_LINEAR">>),
    Void("glTexParameteri", "-", <<"GL_TEXTURE_2D", "GL_TEXTURE_MAG_FILTER", "GL_LINEAR">>),
    Void("glTexParameteri", "-", <<"GL_TEXTURE_2D", "GL_TEXTURE_WRAP_S", "GL_CLAMP_TO_EDGE">>),
    Void("glTexParameteri", "-", <<"GL_TEXTURE_2D", "GL_TEXTURE_WRAP_T", "GL_CLAMP_TO_EDGE">>),
    Void("glGetIntegerv", "-", <<"GL_UNPACK_ALIGNMENT">>),
    Void("glPixelStorei", "-", <<"GL_UNPACK_ALIGNMENT", 1>>),
    Void("glTexImage2D", rgba.name, <<"GL_TEXTURE_2D", "GL_RGBA", rgba.w, rgba.h>>)>>

\* Mutant of CreateTextureFromSurface: the converted surface is not destroyed
CreateTextureFromSurface_Leak(surface, F, g) ==
  IF surface.name = NULL THEN [tex |-> GLTexture, calls |-> <<>>, g |-> g] ELSE
  LET rgba == SDL_ConvertSurface(surface, "SDL_PIXELFORMAT_RGBA32", F)
      id == IF Failed(F, <<"glGenTextures", surface.name>>)
            THEN GLTexture.id ELSE FreshTexture(g)
      prevAlign == g.align
  IN
  Then(<<Tested("SDL_ConvertSurface", surface.name, <<"SDL_PIXELFORMAT_RGBA32">>,
                F, <<"SDL_ConvertSurface", surface.name>>)>>,
  IF rgba.name = NULL THEN [tex |-> GLTexture, calls |-> <<>>, g |-> g] ELSE
  [tex |-> [id |-> id, width |-> rgba.w, height |-> rgba.h],
   g |-> glPixelStorei(
           glPixelStorei([g EXCEPT !.textures = IF id = 0 THEN @ ELSE @ \cup {id}], 1),
           prevAlign),
   calls |-> UploadCalls(surface, rgba, F, id, prevAlign)
             \o <<Void("glPixelStorei", "-", <<"GL_UNPACK_ALIGNMENT", prevAlign>>)>>])

\* Mutant of CreateTextureFromSurface: GL_UNPACK_ALIGNMENT is left at 1
CreateTextureFromSurface_NoRestore(surface, F, g) ==
  IF surface.name = NULL THEN [tex |-> GLTexture, calls |-> <<>>, g |-> g] ELSE
  LET rgba == SDL_ConvertSurface(surface, "SDL_PIXELFORMAT_RGBA32", F)
      id == IF Failed(F, <<"glGenTextures", surface.name>>)
            THEN GLTexture.id ELSE FreshTexture(g)
      prevAlign == g.align
  IN
  Then(<<Tested("SDL_ConvertSurface", surface.name, <<"SDL_PIXELFORMAT_RGBA32">>,
                F, <<"SDL_ConvertSurface", surface.name>>)>>,
  IF rgba.name = NULL THEN [tex |-> GLTexture, calls |-> <<>>, g |-> g] ELSE
  [tex |-> [id |-> id, width |-> rgba.w, height |-> rgba.h],
   g |-> glPixelStorei([g EXCEPT !.textures = IF id = 0 THEN @ ELSE @ \cup {id}], 1),
   calls |-> UploadCalls(surface, rgba, F, id, prevAlign)
             \o <<Void("SDL_DestroySurface", rgba.name, <<>>)>>])

\* GLTexture CreateTextureFromSurface(SDL_Surface *surface): [tex, calls, g]
\* where g is the GL state [align, textures]
CreateTextureFromSurface(surface, F, g) ==
  IF surface.name = NULL THEN [tex |-> GLTexture, calls |-> <<>>, g |-> g] ELSE
  LET rgba == SDL_ConvertSurface(surface, "SDL_PIXELFORMAT_RGBA32", F)
      id == IF Failed(F, <<"glGenTextures", surface.name>>)
            THEN GLTexture.id ELSE FreshTexture(g)
      prevAlign == g.align
  IN
  Then(<<Tested("SDL_ConvertSurface", surface.name, <<"SDL_PIXELFORMAT_RGBA32">>,
                F, <<"SDL_ConvertSurface", surface.name>>)>>,
  IF rgba.name = NULL THEN [tex |-> GLTexture, calls |-> <<>>, g |-> g] ELSE
  [tex |-> [id |-> id, width |-> rgba.w, height |-> rgba.h],
   g |-> glPixelStorei(
           glPixelStorei([g EXCEPT !.textures = IF id = 0 THEN @ ELSE @ \cup {id}], 1),
           prevAlign),
   calls |-> UploadCalls(surface, rgba, F, id, prevAlign)
             \o <<Void("glPixelStorei", "-", <<"GL_UNPACK_ALIGNMENT", prevAlign>>),
                  Void("SDL_DestroySurface", rgba.name, <<>>)>>])

\* void DestroyTexture(GLTexture &tex): [tex, calls, g]
DestroyTexture(tex, g) ==
  IF tex.id # 0
  THEN [tex |-> [tex EXCEPT !.id = 0],
        calls |-> <<Void("glDeleteTextures", "-", <<1, tex.id>>)>>,
        g |-> [g EXCEPT !.textures = @ \ {tex.id}]]
  ELSE [tex |-> tex, calls |-> <<>>, g |-> g]

-----------------------------------------------------------------------------
(* Frames *)

\* void BeginFrame(GLRenderer &renderer, SDL_Window *window, float r, g, b)
BeginFrame(renderer, window, px, ticks, plat) ==
  LET w == px[1]
      h == px[2]
  IN <<Void("SDL_GetWindowSizeInPixels", window, <<>>),
       Void("glViewport", "-", <<0, 0, w, h>>)>>
     \o (IF ~Emscripten(plat) THEN OrthoCalls(w, h)
         ELSE <<Void("glUseProgram", "-", <<renderer.program>>),
                Void("glUniform2f", "-", <<renderer.uResolutionLoc, w, h>>)>>)
     \o <<Void("glClearColor", "-", <<ticks>>),
          Void("glClear", "-", <<"GL_COLOR_BUFFER_BIT">>)>>

\* DrawTexture, #else branch: desktop immediate mode
DrawTextureImmediate(renderer, tex, x, y, w, h) ==
  IF tex.id = 0 THEN <<>> ELSE
  <<Void("glBindTexture", "-", <<"GL_TEXTURE_2D", tex.id>>),
    Void("glBegin", "-", <<"GL_TRIANGLES">>),
    Void("glTexCoord2f", "-", <<0, 0>>),
    Void("glVertex2f", "-", <<x, y>>),
    Void("glTexCoord2f", "-", <<1, 0>>),
    Void("glVertex2f", "-", <<x + w, y>>),
    Void("glTexCoord2f", "-", <<1, 1>>),
    Void("glVertex2f", "-", <<x + w, y + h>>),
    Void("glTexCoord2f", "-", <<0, 0>>),
    Void("glVertex2f", "-", <<x, y>>),
    Void("glTexCoord2f", "-", <<1, 1>>),
    Void("glVertex2f", "-", <<x + w, y + h>>),
    Void("glTexCoord2f", "-", <<0, 1>>),
    Void("glVertex2f", "-", <<x, y + h>>),
    Void("glEnd", "-", <<>>)>>

\* Mutant of DrawTextureGLES2: the texture coordinates are read from the
\* start of each Vertex, where the position is
DrawTextureGLES2_UVOffset(renderer, tex, x, y, w, h) ==
  IF tex.id = 0 THEN <<>> ELSE
  LET verts == <<x, y, 0, 0,
                 x + w, y, 1, 0,
                 x + w, y + h, 1, 1,
                 x, y, 0, 0,
                 x + w, y + h, 1, 1,
                 x, y + h, 0, 1>>
  IN
  <<Void("glUseProgram", "-", <<renderer.program>>),
    Void("glActiveTexture", "-", <<"GL_TEXTURE0">>),
    Void("glBindTexture", "-", <<"GL_TEXTURE_2D", tex.id>>),
    Void("glBindBuffer", "-", <<"GL_ARRAY_BUFFER", renderer.vbo>>),
    Void("glBufferData", "-", <<"GL_ARRAY_BUFFER", 4 * Len(verts), verts, "GL_DYNAMIC_DRAW">>),
    Void("glEnableVertexAttribArray", "-", <<renderer.aPosLoc>>),
    Void("glVertexAttribPointer", "-", <<renderer.aPosLoc, 2, "GL_FLOAT", FALSE, 16, 0>>),
    Void("glEnableVertexAttribArray", "-", <<renderer.aUVLoc>>),
    Void("glVertexAttribPointer", "-", <<renderer.aUVLoc, 2, "GL_FLOAT", FALSE, 16, 0>>),
    Void("glDrawArrays", "-", <<"GL_TRIANGLES", 0, 6>>),
    Void("glDisableVertexAttribArray", "-", <<renderer.aPosLoc>>),
    Void("glDisableVertexAttribArray", "-", <<renderer.aUVLoc>>)>>

\* DrawTexture, #ifdef __EMSCRIPTEN__ branch: shader and vertex buffer.
\* verts is the array of six Vertex {x, y, u, v}, laid out as 24 floats of
\* 4 bytes; sizeof(Vertex) is 16 and sizeof(verts) is 96.
DrawTextureGLES2(renderer, tex, x, y, w, h) ==
  IF tex.id = 0 THEN <<>> ELSE
  LET verts == <<x, y, 0, 0,
                 x + w, y, 1, 0,
                 x + w, y + h, 1, 1,
                 x, y, 0, 0,
                 x + w, y + h, 1, 1,
                 x, y + h, 0, 1>>
  IN
  <<Void("glUseProgram", "-", <<renderer.program>>),
    Void("glActiveTexture", "-", <<"GL_TEXTURE0">>),
    Void("glBindTexture", "-", <<"GL_TEXTURE_2D", tex.id>>),
    Void("glBindBuffer", "-", <<"GL_ARRAY_BUFFER", renderer.vbo>>),
    Void("glBufferData", "-", <<"GL_ARRAY_BUFFER", 4 * Len(verts), verts, "GL_DYNAMIC_DRAW">>),
    Void("glEnableVertexAttribArray", "-", <<renderer.aPosLoc>>),
    Void("glVertexAttribPointer", "-", <<renderer.aPosLoc, 2, "GL_FLOAT", FALSE, 16, 0>>),
    Void("glEnableVertexAttribArray", "-", <<renderer.aUVLoc>>),
    Void("glVertexAttribPointer", "-", <<renderer.aUVLoc, 2, "GL_FLOAT", FALSE, 16, 2 * 4>>),
    Void("glDrawArrays", "-", <<"GL_TRIANGLES", 0, 6>>),
    Void("glDisableVertexAttribArray", "-", <<renderer.aPosLoc>>),
    Void("glDisableVertexAttribArray", "-", <<renderer.aUVLoc>>)>>

\* void DrawTexture(GLRenderer &renderer, const GLTexture &tex, float x, y, w, h)
DrawTexture(renderer, tex, x, y, w, h, plat) ==
  IF Emscripten(plat) THEN DrawTextureGLES2(renderer, tex, x, y, w, h)
  ELSE DrawTextureImmediate(renderer, tex, x, y, w, h)

\* void EndFrame(SDL_Window *window)
EndFrame(window) == <<Void("SDL_GL_SwapWindow", window, <<>>)>>

-----------------------------------------------------------------------------
(* Application state and callbacks *)

SDL_FRect(x, y, w, h) == [x |-> x, y |-> y, w |-> w, h |-> h]

\* struct AppContext, default-initialised
AppContext ==
  [window |-> NULL, gl |-> GLRenderer, messageTex |-> GLTexture,
   imageTex |-> GLTexture, messageDest |-> SDL_FRect(0, 0, 0, 0),
   track |-> NULL, app_quit |-> SDL_APP_CONTINUE]

\* Mutant of SDL_Fail: the error is logged and the application goes on
SDL_Fail_Continue == SDL_APP_CONTINUE

\* SDL_AppResult SDL_Fail()
SDL_Fail == SDL_APP_FAILURE

\* A failure exit of SDL_AppInit: return SDL_Fail(), with nothing allocated
\* and *appstate not written; g is the GL state at that point
InitFailure(g) ==
  [calls |-> <<>>, ret |-> SDL_Fail, app |-> AppContext, published |-> FALSE, g |-> g]

\* SDL_AppResult SDL_AppInit(void **appstate, int argc, char *argv[]).
\* F: the calls that fail; textSize, imageSize: the sizes of the surfaces
\* TTF_RenderText_Solid and IMG_Load produce; px: the window's pixel size;
\* g: the GL state.  [calls, ret, app, published, g]
SDL_AppInit(F, textSize, imageSize, px, g, plat) ==
  LET window == IF Failed(F, <<"SDL_CreateWindow">>) THEN NULL ELSE "window"
      initgl == InitGL(window, F, px, plat)
      glRenderer == initgl.out
      basePathPtr == IF Failed(F, <<"SDL_GetBasePath">>) THEN NULL ELSE "basePath"
      font == IF Failed(F, <<"TTF_OpenFont">>) THEN NULL ELSE "font"
      surfaceMessage ==
        IF Failed(F, <<"TTF_RenderText_Solid">>) THEN NullSurface
        ELSE Surface("surfaceMessage", textSize[1], textSize[2], "SDL_PIXELFORMAT_INDEX8")
      mt == CreateTextureFromSurface(surfaceMessage, F, g)
      messageTex == mt.tex
      text_rect == SDL_FRect(0, 0, messageTex.width, messageTex.height)
      svg_surface ==
        IF Failed(F, <<"IMG_Load">>) THEN NullSurface
        ELSE Surface("svg_surface", imageSize[1], imageSize[2], "SDL_PIXELFORMAT_ABGR8888")
      it == CreateTextureFromSurface(svg_surface, F, mt.g)
      imageTex == it.tex
      mixer == IF Failed(F, <<"MIX_CreateMixerDevice">>) THEN NULL ELSE "mixer"
      mixerTrack == IF Failed(F, <<"MIX_CreateTrack">>) THEN NULL ELSE "track"
      music == IF Failed(F, <<"MIX_LoadAudio">>) THEN NULL ELSE "music"
      props == "props"
  IN
  Then(<<Tested("SDL_Init", "-", <<"SDL_INIT_VIDEO|SDL_INIT_AUDIO">>, F, <<"SDL_Init">>)>>,
  IF Failed(F, <<"SDL_Init">>) THEN InitFailure(g) ELSE
  Then(<<Tested("TTF_Init", "-", <<>>, F, <<"TTF_Init">>)>>,
  IF Failed(F, <<"TTF_Init">>) THEN InitFailure(g) ELSE
  Then(<<Tested("MIX_Init", "-", <<>>, F, <<"MIX_Init">>)>>,
  IF Failed(F, <<"MIX_Init">>) THEN InitFailure(g) ELSE
  Then(<<Tested("SDL_CreateWindow", "-", <<windowStartWidth, windowStartHeight>>,
                F, <<"SDL_CreateWindow">>)>>,
  IF window = NULL THEN InitFailure(g) ELSE
  Then(initgl.calls,
  IF ~initgl.ok THEN InitFailure(g) ELSE
  Then(IF Android(plat) THEN <<>>
       ELSE <<Tested("SDL_GetBasePath", "-", <<>>, F, <<"SDL_GetBasePath">>)>>,
  IF ~Android(plat) /\ basePathPtr = NULL THEN InitFailure(g) ELSE
  Then(<<Tested("TTF_OpenFont", "-", <<"assets/Inter-VariableFont.ttf", 36>>,
                F, <<"TTF_OpenFont">>)>>,
  IF font = NULL THEN InitFailure(g) ELSE
  Then(<<Tested("TTF_RenderText_Solid", font, <<"Hello SDL!">>,
                F, <<"TTF_RenderText_Solid">>)>>,
  IF surfaceMessage.name = NULL
  THEN Then(<<Void("TTF_CloseFont", font, <<>>)>>, InitFailure(g)) ELSE
  Then(mt.calls \o <<Void("TTF_CloseFont", font, <<>>),
                     Void("SDL_DestroySurface", surfaceMessage.name, <<>>)>>,
  IF messageTex.id = 0 THEN InitFailure(mt.g) ELSE
  Then(<<Tested("IMG_Load", "-", <<"assets/logo.png">>, F, <<"IMG_Load">>)>>,
  IF svg_surface.name = NULL THEN InitFailure(mt.g) ELSE
  Then(it.calls \o <<Void("SDL_DestroySurface", svg_surface.name, <<>>)>>,
  IF imageTex.id = 0 THEN InitFailure(it.g) ELSE
  Then(<<Tested("MIX_CreateMixerDevice", "-", <<"SDL_AUDIO_DEVICE_DEFAULT_PLAYBACK">>,
                F, <<"MIX_CreateMixerDevice">>)>>,
  IF mixer = NULL THEN InitFailure(it.g) ELSE
  Then(<<Tested("MIX_CreateTrack", mixer, <<>>, F, <<"MIX_CreateTrack">>)>>,
  IF mixerTrack = NULL THEN InitFailure(it.g) ELSE
  Then(<<Tested("MIX_LoadAudio", mixer, <<"assets/the_entertainer.ogg">>,
                F, <<"MIX_LoadAudio">>)>>,
  IF music = NULL THEN InitFailure(it.g) ELSE
  Then(<<Void("MIX_SetTrackAudio", mixerTrack, <<music>>),
         Void("SDL_CreateProperties", "-", <<>>),
         Void("SDL_SetNumberProperty", props, <<"MIX_PROP_PLAY_LOOPS_NUMBER", -1>>),
         Void("MIX_PlayTrack", mixerTrack, <<props>>),
         Void("SDL_ShowWindow", window, <<>>),
         Void("SDL_GetWindowSize", window, <<>>),
         Void("SDL_GetWindowSizeInPixels", window, <<>>),
         Void("new AppContext", "app", <<>>),
         Void("*appstate = app", "app", <<>>)>>,
  [calls |-> <<>>,
   ret |-> SDL_APP_CONTINUE,
   app |-> [AppContext EXCEPT
              !.window = window,
              !.gl = glRenderer,
              !.messageTex = messageTex,
              !.imageTex = imageTex,
              !.messageDest = text_rect,
              !.track = mixerTrack],
   published |-> TRUE,
   g |-> it.g])))))))))))))))

\* Mutant of SDL_AppEvent: the test of event->type is missing, every event
\* latches the quit
SDL_AppEvent_LatchAny(a, eventType) ==
  [app |-> [a EXCEPT !.app_quit = SDL_APP_SUCCESS], ret |-> SDL_APP_CONTINUE]

\* Mutant of SDL_AppEvent: the quit event is ignored
SDL_AppEvent_NeverLatch(a, eventType) ==
  [app |-> a, ret |-> SDL_APP_CONTINUE]

\* SDL_AppResult SDL_AppEvent(void *appstate, SDL_Event *event): [app, ret]
SDL_AppEvent(a, eventType) ==
  [app |-> IF eventType = "SDL_EVENT_QUIT"
           THEN [a EXCEPT !.app_quit = SDL_APP_SUCCESS] ELSE a,
   ret |-> SDL_APP_CONTINUE]

\* Mutant of SDL_AppIterate: the track is started again on every frame
SDL_AppIterate_Replay(a, px, ticks, plat) ==
  LET winW == px[1]
      winH == px[2]
  IN [calls |->
        <<Void("SDL_GetTicks", "-", <<>>),
          Void("MIX_PlayTrack", a.track, <<"props">>)>>
        \o BeginFrame(a.gl, a.window, px, ticks, plat)
        \o <<Void("SDL_GetWindowSizeInPixels", a.window, <<>>)>>
        \o DrawTexture(a.gl, a.imageTex, 0, 0, winW, winH, plat)
        \o DrawTexture(a.gl, a.messageTex, a.messageDest.x, a.messageDest.y,
                       a.messageDest.w, a.messageDest.h, plat)
        \o EndFrame(a.window),
      ret |-> a.app_quit]

\* Mutant of SDL_AppIterate: the text is drawn first and the image over it
SDL_AppIterate_TextFirst(a, px, ticks, plat) ==
  LET winW == px[1]
      winH == px[2]
  IN [calls |->
        <<Void("SDL_GetTicks", "-", <<>>)>>
        \o BeginFrame(a.gl, a.window, px, ticks, plat)
        \o <<Void("SDL_GetWindowSizeInPixels", a.window, <<>>)>>
        \o DrawTexture(a.gl, a.messageTex, a.messageDest.x, a.messageDest.y,
                       a.messageDest.w, a.messageDest.h, plat)
        \o DrawTexture(a.gl, a.imageTex, 0, 0, winW, winH, plat)
        \o EndFrame(a.window),
      ret |-> a.app_quit]

\* SDL_AppResult SDL_AppIterate(void *appstate): [calls, ret]
SDL_AppIterate(a, px, ticks, plat) ==
  LET winW == px[1]
      winH == px[2]
  IN [calls |->
        <<Void("SDL_GetTicks", "-", <<>>)>>
        \o BeginFrame(a.gl, a.window, px, ticks, plat)
        \o <<Void("SDL_GetWindowSizeInPixels", a.window, <<>>)>>
        \o DrawTexture(a.gl, a.imageTex, 0, 0, winW, winH, plat)
        \o DrawTexture(a.gl, a.messageTex, a.messageDest.x, a.messageDest.y,
                       a.messageDest.w, a.messageDest.h, plat)
        \o EndFrame(a.window),
      ret |-> a.app_quit]

\* Mutant of SDL_AppQuit: the test of app is missing
SDL_AppQuit_NoNullCheck(ptr, a, g, plat) ==
  LET tail == <<Void("TTF_Quit", "-", <<>>),
                Void("MIX_Quit", "-", <<>>),
                Void("SDL_Quit", "-", <<>>)>>
      cstop == IF a.track # NULL
               THEN <<Void("MIX_TrackMSToFrames", a.track, <<1000>>),
                      Void("MIX_StopTrack", a.track, <<1000>>),
                      Void("sleep_for", "-", <<1000>>)>>
               ELSE <<>>
      dm == DestroyTexture(a.messageTex, g)
      di == DestroyTexture(a.imageTex, dm.g)
      sh == ShutdownGL(a.window, a.gl, plat)
  IN [calls |-> cstop \o dm.calls \o di.calls \o sh.calls
                \o <<Void("SDL_DestroyWindow", a.window, <<>>),
                     Void("delete app", "app", <<>>)>>
                \o tail,
      app |-> [a EXCEPT !.messageTex = dm.tex, !.imageTex = di.tex, !.gl = sh.renderer],
      alive |-> FALSE,
      g |-> di.g]

\* void SDL_AppQuit(void *appstate, SDL_AppResult result): [calls, app, alive, g]
SDL_AppQuit(ptr, a, g, plat) ==
  LET tail == <<Void("TTF_Quit", "-", <<>>),
                Void("MIX_Quit", "-", <<>>),
                Void("SDL_Quit", "-", <<>>)>>
  IN
  IF ptr = NULL THEN [calls |-> tail, app |-> a, alive |-> FALSE, g |-> g] ELSE
  LET cstop == IF a.track # NULL
               THEN <<Void("MIX_TrackMSToFrames", a.track, <<1000>>),
                      Void("MIX_StopTrack", a.track, <<1000>>),
                      Void("sleep_for", "-", <<1000>>)>>
               ELSE <<>>
      dm == DestroyTexture(a.messageTex, g)
      di == DestroyTexture(a.imageTex, dm.g)
      sh == ShutdownGL(a.window, a.gl, plat)
  IN [calls |-> cstop \o dm.calls \o di.calls \o sh.calls
                \o <<Void("SDL_DestroyWindow", a.window, <<>>),
                     Void("delete app", "app", <<>>)>>
                \o tail,
      app |-> [a EXCEPT !.messageTex = dm.tex, !.imageTex = di.tex, !.gl = sh.renderer],
      alive |-> FALSE,
      g |-> di.g]

-----------------------------------------------------------------------------
(* The environment's choices *)

\* The functions SDL_GL_GetProcAddress may fail to resolve: the first, one in
\* the middle and the last of those LOAD_GL_FUNC loads
UnresolvedFuncs == {"glCreateShader", "glGetUniformLocation", "glDisableVertexAttribArray"}

\* The calls whose result the program tests, by build variant
FailPoints(plat) ==
  {<<"SDL_Init">>, <<"TTF_Init">>, <<"MIX_Init">>, <<"SDL_CreateWindow">>,
   <<"SDL_GL_CreateContext">>, <<"SDL_GL_MakeCurrent">>,
   <<"TTF_OpenFont">>, <<"TTF_RenderText_Solid">>,
   <<"SDL_ConvertSurface", "surfaceMessage">>, <<"glGenTextures", "surfaceMessage">>,
   <<"IMG_Load">>,
   <<"SDL_ConvertSurface", "svg_surface">>, <<"glGenTextures", "svg_surface">>,
   <<"MIX_CreateMixerDevice">>, <<"MIX_CreateTrack">>, <<"MIX_LoadAudio">>}
  \cup (IF Android(plat) THEN {} ELSE {<<"SDL_GetBasePath">>})
  \cup (IF ~Emscripten(plat) THEN {} ELSE
          {<<"SDL_GL_GetProcAddress", name>> : name \in UnresolvedFuncs}
          \cup {<<"glCreateShader", "GL_VERTEX_SHADER">>,
                <<"glCompileShader", "GL_VERTEX_SHADER">>,
                <<"glCreateShader", "GL_FRAGMENT_SHADER">>,
                <<"glCompileShader", "GL_FRAGMENT_SHADER">>,
                <<"glCreateProgram">>, <<"glLinkProgram">>,
                <<"glGetUniformLocation", "uResolution">>,
                <<"glGetUniformLocation", "uTexture">>,
                <<"glGetAttribLocation", "aPos">>,
                <<"glGetAttribLocation", "aUV">>,
                <<"glGenBuffers">>})

\* The subsets of S with at most k elements
RECURSIVE SubsetsUpTo(_, _)
SubsetsUpTo(S, k) ==
  IF k = 0 THEN {{}}
  ELSE LET prev == SubsetsUpTo(S, k - 1)
       IN prev \cup {T \cup {x} : T \in prev, x \in S}

FailSets == [plat \in Platforms |-> SubsetsUpTo(FailPoints(plat), MaxFailures)]

\* Pixel sizes of the window: created 400 x 400, at pixel density 1 or 2,
\* and resizable
InitialPixelSizes ==
  {<<windowStartWidth, windowStartHeight>>,
   <<2 * windowStartWidth, 2 * windowStartHeight>>}

PixelSizes == InitialPixelSizes \cup {<<640, 480>>}

TextSizes == {<<180, 44>>, <<90, 22>>}

ImageSizes == {<<128, 96>>}

EventTypes == {"SDL_EVENT_QUIT", "SDL_EVENT_KEY_DOWN", "SDL_EVENT_WINDOW_PIXEL_SIZE_CHANGED"}

NoProbe == <<>>

-----------------------------------------------------------------------------
(* The application run by SDL's main-callback runtime *)

Enter(callback, args) == Call("enter", callback, args, "-")

Return(callback, ret) == Call("return", callback, <<>>, ret)

GLState == [align |-> unpackAlign, textures |-> textures]

Init ==
  /\ platform \in Platforms
  /\ phase = "start"
  /\ appstate = NULL
  /\ app = AppContext
  /\ appAlive = FALSE
  /\ log = <<>>
  /\ winPx \in InitialPixelSizes
  /\ unpackAlign = 4
  /\ textures = {}
  /\ frames = 0
  /\ events = 0
  /\ initRet = "none"
  /\ quitResult = "none"
  /\ probeIn = NoProbe
  /\ probeOut = NoProbe

\* The runtime calls SDL_AppInit once, with *appstate NULL; any result other
\* than SDL_APP_CONTINUE ends the application with that result.
RunAppInit ==
  /\ phase = "start"
  /\ \E F \in FailSets[platform], textSize \in TextSizes, imageSize \in ImageSizes :
       LET r == SDL_AppInit(F, textSize, imageSize, winPx, GLState, platform) IN
       /\ log' = log \o <<Enter("SDL_AppInit", <<>>)>> \o r.calls
                     \o <<Return("SDL_AppInit", r.ret)>>
       /\ appstate' = IF r.published THEN "app" ELSE appstate
       /\ app' = r.app
       /\ appAlive' = r.published
       /\ unpackAlign' = r.g.align
       /\ textures' = r.g.textures
       /\ initRet' = r.ret
       /\ phase' = IF r.ret = SDL_APP_CONTINUE THEN "running" ELSE "initfailed"
       /\ quitResult' = IF r.ret = SDL_APP_CONTINUE THEN quitResult ELSE r.ret
  /\ UNCHANGED <<platform, winPx, frames, events, probeIn, probeOut>>

\* The runtime delivers an event; a resize changes the window's pixel size
\* before the event is delivered.
RunAppEvent ==
  /\ phase = "running"
  /\ events < MaxEvents
  /\ \E eventType \in EventTypes, px \in PixelSizes :
       /\ (eventType = "SDL_EVENT_WINDOW_PIXEL_SIZE_CHANGED") = (px # winPx)
       /\ LET r == SDL_AppEvent(app, eventType) IN
          /\ log' = log \o <<Enter("SDL_AppEvent", <<eventType>>),
                             Return("SDL_AppEvent", r.ret)>>
          /\ app' = r.app
          /\ winPx' = px
          /\ phase' = IF r.ret = SDL_APP_CONTINUE THEN "running" ELSE "quitting"
          /\ quitResult' = IF r.ret = SDL_APP_CONTINUE THEN quitResult ELSE r.ret
  /\ events' = events + 1
  /\ UNCHANGED <<platform, appstate, appAlive, unpackAlign, textures, frames,
                 initRet, probeIn, probeOut>>

\* The runtime calls SDL_AppIterate once per frame, until a callback returns
\* something other than SDL_APP_CONTINUE.  MaxFrames bounds the frames drawn
\* before the quit is latched.
RunAppIterate ==
  /\ phase = "running"
  /\ frames < MaxFrames \/ app.app_quit # SDL_APP_CONTINUE
  /\ LET r == SDL_AppIterate(app, winPx, frames, platform) IN
     /\ log' = log \o <<Enter("SDL_AppIterate", <<>>)>> \o r.calls
                   \o <<Return("SDL_AppIterate", r.ret)>>
     /\ phase' = IF r.ret = SDL_APP_CONTINUE THEN "running" ELSE "quitting"
     /\ quitResult' = IF r.ret = SDL_APP_CONTINUE THEN quitResult ELSE r.ret
  /\ frames' = frames + 1
  /\ UNCHANGED <<platform, appstate, app, appAlive, winPx, unpackAlign, textures,
                 events, initRet, probeIn, probeOut>>

\* The runtime calls SDL_AppQuit once, with the appstate it holds and the
\* result that ended the application, and then exits.
RunAppQuit ==
  /\ phase \in {"initfailed", "quitting"}
  /\ LET r == SDL_AppQuit(appstate, app, GLState, platform) IN
     /\ log' = log \o <<Enter("SDL_AppQuit", <<appstate, quitResult>>)>> \o r.calls
                   \o <<Return("SDL_AppQuit", "-")>>
     /\ app' = r.app
     /\ appAlive' = r.alive
     /\ unpackAlign' = r.g.align
     /\ textures' = r.g.textures
  /\ phase' = "done"
  /\ UNCHANGED <<platform, appstate, winPx, frames, events, initRet, quitResult,
                 probeIn, probeOut>>

Next == RunAppInit \/ RunAppEvent \/ RunAppIterate \/ RunAppQuit

Spec == Init /\ [][Next]_vars

\* The runtime keeps calling SDL_AppIterate while the application runs, and
\* calls SDL_AppQuit when it ends.
FairSpec == Spec /\ WF_vars(RunAppIterate) /\ WF_vars(RunAppQuit)

-----------------------------------------------------------------------------
(* Function-level specifications: the inputs are drawn by the initial       *)
(* predicate and one action applies the function.                           *)

\* The state of the application's variables while a function is under test
Idle ==
  /\ platform = "desktop"
  /\ appstate = NULL
  /\ app = AppContext
  /\ appAlive = FALSE
  /\ log = <<>>
  /\ winPx = <<windowStartWidth, windowStartHeight>>
  /\ unpackAlign = 4
  /\ textures = {}
  /\ frames = 0
  /\ events = 0
  /\ initRet = "none"
  /\ quitResult = "none"

AppVars == <<platform, appstate, app, appAlive, log, winPx, unpackAlign,
             textures, frames, events, initRet, quitResult>>

\* The renderer a successful InitGL leaves, per build variant
ReadyRenderer(plat) ==
  InitGL("window", {}, <<windowStartWidth, windowStartHeight>>, plat).out

Coords == 0..MaxCoord

DrawInputs ==
  [tex : [id : 0..2, width : {8}, height : {4}],
   x : Coords, y : Coords, w : Coords, h : Coords]

InitDraw ==
  /\ Idle
  /\ phase = "draw"
  /\ probeIn \in DrawInputs
  /\ probeOut = NoProbe

\* Both branches of DrawTexture on the same texture and rectangle
ApplyDrawTexture ==
  /\ phase = "draw"
  /\ probeOut' =
       [immediate |-> DrawTexture(ReadyRenderer("desktop"), probeIn.tex, probeIn.x,
                                  probeIn.y, probeIn.w, probeIn.h, "desktop"),
        gles2 |-> DrawTexture(ReadyRenderer("emscripten"), probeIn.tex, probeIn.x,
                              probeIn.y, probeIn.w, probeIn.h, "emscripten")]
  /\ phase' = "drawn"
  /\ UNCHANGED <<AppVars, probeIn>>

NextDraw == ApplyDrawTexture

SpecDraw == InitDraw /\ [][NextDraw]_vars

TexSurfaces ==
  {NullSurface}
  \cup {Surface("surface", w, h, "SDL_PIXELFORMAT_INDEX8") :
          w \in 1..(MaxCoord + 1), h \in 1..(MaxCoord + 1)}

TexInputs ==
  [surface : TexSurfaces,
   F : SUBSET {<<"SDL_ConvertSurface", "surface">>, <<"glGenTextures", "surface">>},
   g : [align : {1, 2, 4, 8}, textures : {{}, {1}, {2}, {1, 2}}]]

InitTex ==
  \/ Init
  \/ /\ Idle
     /\ phase = "tex"
     /\ probeIn \in TexInputs
     /\ probeOut = NoProbe

\* CreateTextureFromSurface on any surface, in any GL state
ApplyCreateTexture ==
  /\ phase = "tex"
  /\ probeOut' = CreateTextureFromSurface(probeIn.surface, probeIn.F, probeIn.g)
  /\ phase' = "texed"
  /\ UNCHANGED <<AppVars, probeIn>>

NextTex == Next \/ ApplyCreateTexture

\* The application, and CreateTextureFromSurface on its own
SpecTex == InitTex /\ [][NextTex]_vars

-----------------------------------------------------------------------------
(* Reading the history *)

Entries(op) == {i \in DOMAIN log : log[i].op = op}

Ran(op) == Entries(op) # {}

\* The calls of op on object obj
EntriesOn(op, obj) == {i \in Entries(op) : log[i].obj = obj}

\* Callback markers
Entered(callback) == EntriesOn("enter", callback)

Returned(callback) == EntriesOn("return", callback)

\* The positions of the calls made inside callback: those whose last enter
\* marker before them is the callback's
InCallback(callback) ==
  {i \in DOMAIN log :
     /\ log[i].op \notin {"enter", "return"}
     /\ \E e \in Entered(callback) :
          e < i /\ \A k \in Entries("enter") : k < i => k <= e}

\* The calls made by SDL_AppQuit, once it has returned
QuitCalls ==
  LET q == CHOOSE i \in Entered("SDL_AppQuit") : TRUE
  IN SubSeq(log, q + 1, Len(log) - 1)

\* The subsequence of seq whose elements satisfy Keep
Filter(seq, Keep(_)) == SelectSeq(seq, Keep)

OpsOf(seq) == [i \in DOMAIN seq |-> seq[i].op]

-----------------------------------------------------------------------------
(* C1: error propagation in SDL_AppInit *)

CheckedSteps ==
  <<"SDL_Init", "TTF_Init", "MIX_Init", "SDL_CreateWindow", "InitGL",
    "SDL_GetBasePath", "TTF_OpenFont", "TTF_RenderText_Solid",
    "CreateTextureFromSurface(text)", "IMG_Load",
    "CreateTextureFromSurface(image)", "MIX_CreateMixerDevice",
    "MIX_CreateTrack", "MIX_LoadAudio">>

TextureSteps == {"CreateTextureFromSurface(text)", "CreateTextureFromSurface(image)"}

SurfaceOfStep(step) ==
  IF step = "CreateTextureFromSurface(text)" THEN "surfaceMessage" ELSE "svg_surface"

\* The library calls inside InitGL whose result decides InitGL's result
InitGLTested ==
  {"SDL_GL_CreateContext", "SDL_GL_MakeCurrent", "SDL_GL_GetProcAddress",
   "glCreateShader", "glGetShaderiv", "glCreateProgram", "glGetProgramiv",
   "glGetUniformLocation", "glGetAttribLocation", "glGenBuffers"}

\* The step was executed
StepRan(step) ==
  CASE step = "InitGL" -> Ran("SDL_GL_SetAttribute")
    [] step \in TextureSteps -> EntriesOn("SDL_ConvertSurface", SurfaceOfStep(step)) # {}
    [] OTHER -> Ran(step)

\* The step was executed and failed (a texture step fails when it yields id 0)
StepFailed(step) ==
  CASE step = "InitGL" ->
         \E i \in DOMAIN log : log[i].op \in InitGLTested /\ log[i].ret = "fail"
    [] step \in TextureSteps ->
         \E i \in EntriesOn("SDL_ConvertSurface", SurfaceOfStep(step)) :
            \/ log[i].ret = "fail"
            \/ log[i + 1].op = "glGenTextures" /\ log[i + 1].ret = "fail"
    [] OTHER -> \E i \in Entries(step) : log[i].ret = "fail"

StepSucceeded(step) == StepRan(step) /\ ~StepFailed(step)

\* The steps the build compiles: the Android build takes a fixed base path
\* and does not call SDL_GetBasePath
CompiledSteps ==
  {k \in DOMAIN CheckedSteps : ~(Android(platform) /\ CheckedSteps[k] = "SDL_GetBasePath")}

\* A failing step makes SDL_AppInit return SDL_APP_FAILURE with no later step run
FailureStopsInit ==
  \A k \in DOMAIN CheckedSteps :
    StepFailed(CheckedSteps[k]) =>
      /\ initRet = SDL_APP_FAILURE
      /\ \A j \in DOMAIN CheckedSteps : j > k => ~StepRan(CheckedSteps[j])

\* C1 as stated: a failing checked step makes SDL_AppInit return
\* SDL_APP_FAILURE and no later step of the list is executed, and SDL_AppInit
\* returns SDL_APP_CONTINUE only when every step of the list succeeded.
C1_AsStated ==
  initRet # "none" =>
    /\ FailureStopsInit
    /\ initRet = SDL_APP_CONTINUE =>
         \A k \in DOMAIN CheckedSteps : StepSucceeded(CheckedSteps[k])

\* C1 amended: a failing checked step makes SDL_AppInit return
\* SDL_APP_FAILURE and no later step of the list is executed, and SDL_AppInit
\* returns SDL_APP_CONTINUE only when every step of the list that the build
\* compiles succeeded (the Android build has no SDL_GetBasePath step).
C1_ErrorPropagation ==
  initRet # "none" =>
    /\ initRet \in {SDL_APP_CONTINUE, SDL_APP_FAILURE}
    /\ FailureStopsInit
    /\ initRet = SDL_APP_CONTINUE =>
         /\ \A k \in CompiledSteps : StepSucceeded(CheckedSteps[k])
         /\ \A k \in DOMAIN CheckedSteps \ CompiledSteps : ~StepRan(CheckedSteps[k])
    /\ initRet = SDL_APP_FAILURE => \E k \in CompiledSteps : StepFailed(CheckedSteps[k])

\* IMG_Load failed after the text texture was made: SDL_AppInit returned
\* SDL_APP_FAILURE and the image texture step never ran
C1_Witness ==
  /\ initRet = SDL_APP_FAILURE
  /\ StepFailed("IMG_Load")
  /\ StepSucceeded("CreateTextureFromSurface(text)")
  /\ ~StepRan("CreateTextureFromSurface(image)")

-----------------------------------------------------------------------------
(* C2: the quit latch *)

\* An SDL_EVENT_QUIT was delivered to SDL_AppEvent before position i
QuitDeliveredBefore(i) ==
  \E j \in Entered("SDL_AppEvent") : j < i /\ log[j].args = <<"SDL_EVENT_QUIT">>

QuitDelivered == QuitDeliveredBefore(Len(log) + 1)

QuitLatchReturns ==
  /\ \A i \in Returned("SDL_AppEvent") : log[i].ret = SDL_APP_CONTINUE
  /\ \A i \in Returned("SDL_AppIterate") :
       log[i].ret = IF QuitDeliveredBefore(i) THEN SDL_APP_SUCCESS ELSE SDL_APP_CONTINUE
  /\ app.app_quit \in {SDL_APP_CONTINUE, SDL_APP_SUCCESS}

\* C2: SDL_AppEvent returns SDL_APP_CONTINUE for every event, SDL_EVENT_QUIT
\* included; SDL_AppIterate returns SDL_APP_CONTINUE while no SDL_EVENT_QUIT
\* has been delivered and SDL_APP_SUCCESS on every call after one has been;
\* app_quit, once SDL_APP_SUCCESS, stays SDL_APP_SUCCESS and is never
\* SDL_APP_FAILURE.
C2_QuitLatch ==
  /\ []QuitLatchReturns
  /\ [][app.app_quit = SDL_APP_SUCCESS => app'.app_quit = SDL_APP_SUCCESS]_vars

\* A frame was drawn before the quit event, and SDL_AppIterate reported the
\* quit after it
C2_Witness ==
  /\ \E i \in Returned("SDL_AppIterate") : log[i].ret = SDL_APP_CONTINUE
  /\ \E i \in Returned("SDL_AppIterate") :
       log[i].ret = SDL_APP_SUCCESS /\ QuitDeliveredBefore(i)

-----------------------------------------------------------------------------
(* C4: the lifecycle *)

LifecycleOrder ==
  /\ \A i \in Entered("SDL_AppIterate") \cup Entered("SDL_AppEvent") :
       \E r \in Returned("SDL_AppInit") : r < i /\ log[r].ret = SDL_APP_CONTINUE
  /\ Cardinality(Entered("SDL_AppInit")) <= 1
  /\ Cardinality(Entered("SDL_AppQuit")) <= 1
  /\ \A q \in Entered("SDL_AppQuit") : \A i \in q + 1 .. Len(log) : log[i].op # "enter"
  /\ \A q \in Returned("SDL_AppQuit") : q = Len(log)
  /\ phase = "done" <=> Returned("SDL_AppQuit") # {}

\* SDL_AppQuit has run with result SDL_APP_SUCCESS and ended in SDL_Quit
QuitWithSuccess ==
  /\ phase = "done"
  /\ \E q \in Entered("SDL_AppQuit") : log[q].args = <<"app", SDL_APP_SUCCESS>>
  /\ Len(log) >= 2
  /\ log[Len(log) - 1].op = "SDL_Quit"

\* C4: SDL_AppIterate and SDL_AppEvent run only after SDL_AppInit returned
\* SDL_APP_CONTINUE, SDL_AppQuit runs at most once and no callback runs after
\* it; and, when the runtime keeps calling SDL_AppIterate, a delivered
\* SDL_EVENT_QUIT leads to SDL_AppQuit and SDL_Quit with result
\* SDL_APP_SUCCESS.
C4_Lifecycle ==
  /\ []LifecycleOrder
  /\ (QuitDelivered ~> QuitWithSuccess)

\* The application was quit by an SDL_EVENT_QUIT
C4_Witness == QuitDelivered /\ QuitWithSuccess

-----------------------------------------------------------------------------
(* What OpenGL draws for a sequence of calls *)

\* The part of the GL state that decides what is drawn: the bound texture,
\* the current texture coordinate, the vertices since glBegin, the contents
\* of the array buffer, the attribute pointers by location, the draws so far
GLMachine ==
  [bound |-> 0, uv |-> <<0, 0>>, cur |-> <<>>, buf |-> <<>>,
   ptr |-> [loc \in 0..1 |-> [size |-> 0, stride |-> 0, offset |-> 0]],
   draws |-> <<>>]

\* Component k (from 1) of attribute loc of vertex v (from 0): floats are 4
\* bytes, buffer positions count from 1
Attribute(m, loc, v, k) ==
  m.buf[(m.ptr[loc].offset + v * m.ptr[loc].stride) \div 4 + k]

\* The vertices glDrawArrays(mode, first, count) reads with position
\* attribute aPos and texture coordinate attribute aUV
ArrayVertices(m, first, count, aPos, aUV) ==
  [n \in 1..count |->
     <<Attribute(m, aPos, first + n - 1, 1), Attribute(m, aPos, first + n - 1, 2),
       Attribute(m, aUV, first + n - 1, 1), Attribute(m, aUV, first + n - 1, 2)>>]

GLStep(m, c, aPos, aUV) ==
  CASE c.op = "glBindTexture" -> [m EXCEPT !.bound = c.args[2]]
    [] c.op = "glTexCoord2f" -> [m EXCEPT !.uv = c.args]
    [] c.op = "glBegin" -> [m EXCEPT !.cur = <<>>]
    [] c.op = "glVertex2f" ->
         [m EXCEPT !.cur = Append(@, <<c.args[1], c.args[2], m.uv[1], m.uv[2]>>)]
    [] c.op = "glEnd" ->
         [m EXCEPT !.draws = Append(@, [tex |-> m.bound, verts |-> m.cur])]
    [] c.op = "glBufferData" -> [m EXCEPT !.buf = c.args[3]]
    [] c.op = "glVertexAttribPointer" ->
         [m EXCEPT !.ptr[c.args[1]] =
            [size |-> c.args[2], stride |-> c.args[5], offset |-> c.args[6]]]
    [] c.op = "glDrawArrays" ->
         [m EXCEPT !.draws =
            Append(@, [tex |-> m.bound,
                       verts |-> ArrayVertices(m, c.args[2], c.args[3], aPos, aUV)])]
    [] OTHER -> m

RECURSIVE GLRun(_, _, _, _, _)
GLRun(m, calls, i, aPos, aUV) ==
  IF i > Len(calls) THEN m
  ELSE GLRun(GLStep(m, calls[i], aPos, aUV), calls, i + 1, aPos, aUV)

\* The draws of a sequence of calls: for each, the texture and the vertices
\* <<x, y, u, v>> in order.  The shader reads aPos at location 0 and aUV at
\* location 1.
Draws(calls) == GLRun(GLMachine, calls, 1, 0, 1).draws

\* The quad of a rectangle: two triangles
Quad(x, y, w, h) ==
  <<<<x, y, 0, 0>>, <<x + w, y, 1, 0>>, <<x + w, y + h, 1, 1>>,
    <<x, y, 0, 0>>, <<x + w, y + h, 1, 1>>, <<x, y + h, 0, 1>>>>

-----------------------------------------------------------------------------
(* C5: the two variants of DrawTexture *)

\* C5: for every texture and rectangle, the immediate-mode and the GLES2
\* variant of DrawTexture both issue no call when tex.id is 0, and otherwise
\* both draw once, with texture tex.id bound, the same six vertices in the
\* same order: (x,y,0,0), (x+w,y,1,0), (x+w,y+h,1,1), (x,y,0,0),
\* (x+w,y+h,1,1), (x,y+h,0,1).
C5_SameDraw ==
  phase = "drawn" =>
    IF probeIn.tex.id = 0
    THEN probeOut.immediate = <<>> /\ probeOut.gles2 = <<>>
    ELSE LET expected == <<[tex |-> probeIn.tex.id,
                            verts |-> Quad(probeIn.x, probeIn.y, probeIn.w, probeIn.h)]>>
         IN /\ Draws(probeOut.immediate) = expected
            /\ Draws(probeOut.gles2) = expected

\* A texture drawn on a rectangle that is not degenerate
C5_Witness ==
  /\ phase = "drawn"
  /\ probeIn.tex.id # 0
  /\ probeIn.w > 0 /\ probeIn.h > 0 /\ probeIn.x > 0
  /\ Len(Draws(probeOut.gles2)) = 1

-----------------------------------------------------------------------------
(* C3: the frame *)

\* The calls of the last callback entered
LastCallbackCalls ==
  LET e == CHOOSE i \in Entered("SDL_AppIterate") :
             \A j \in Entered("SDL_AppIterate") : j <= i
  IN SubSeq(log, e + 1, Len(log) - 1)

IsFrameMark(c) ==
  c.op \in {"glViewport", "glClear", "glBegin", "glDrawArrays", "SDL_GL_SwapWindow"}

\* The viewport, the clear, the draws and the swap of a frame, in order
FrameMarks(calls) ==
  [i \in DOMAIN Filter(calls, IsFrameMark) |->
     IF Filter(calls, IsFrameMark)[i].op \in {"glBegin", "glDrawArrays"} THEN "draw"
     ELSE Filter(calls, IsFrameMark)[i].op]

\* C3: every call of SDL_AppIterate, the one that returns SDL_APP_SUCCESS
\* included, sets the viewport to the window's pixel size, clears, draws the
\* image at (0,0) with the window's pixel width and height, draws the text at
\* messageDest and swaps the buffers: two quads, the image first, and nothing
\* after the swap.
C3_Frame ==
  (Len(log) > 0 /\ log[Len(log)] = Return("SDL_AppIterate", log[Len(log)].ret)) =>
    LET frame == LastCallbackCalls IN
    /\ FrameMarks(frame) = <<"glViewport", "glClear", "draw", "draw", "SDL_GL_SwapWindow">>
    /\ \A i \in DOMAIN frame :
         frame[i].op = "glViewport" => frame[i].args = <<0, 0, winPx[1], winPx[2]>>
    /\ Draws(frame) =
         <<[tex |-> app.imageTex.id, verts |-> Quad(0, 0, winPx[1], winPx[2])],
           [tex |-> app.messageTex.id,
            verts |-> Quad(app.messageDest.x, app.messageDest.y,
                           app.messageDest.w, app.messageDest.h)]>>
    /\ app.imageTex.id # 0 /\ app.messageTex.id # 0
    /\ app.imageTex.id # app.messageTex.id
    /\ frame[Len(frame)].op = "SDL_GL_SwapWindow"

\* The frame drawn by the call of SDL_AppIterate that reports the quit, after
\* the window was resized
C3_Witness ==
  /\ Len(log) > 0
  /\ log[Len(log)] = Return("SDL_AppIterate", SDL_APP_SUCCESS)
  /\ winPx = <<640, 480>>
  /\ Len(Draws(LastCallbackCalls)) = 2

-----------------------------------------------------------------------------
(* C6: the music *)

MixerOps == {"MIX_SetTrackAudio", "MIX_PlayTrack", "MIX_StopTrack"}

\* C6: after a successful SDL_AppInit, MIX_SetTrackAudio was called on the
\* created track with the loaded audio, then MIX_PlayTrack once, with the
\* properties whose loop count was set to -1, both before *appstate was
\* written and before SDL_AppInit returned; no callback plays or stops the
\* track afterwards until SDL_AppQuit calls MIX_StopTrack.
C6_MusicStartedOnce ==
  initRet = SDL_APP_CONTINUE =>
    /\ Cardinality(Entries("MIX_PlayTrack")) = 1
    /\ Cardinality(Entries("MIX_SetTrackAudio")) = 1
    /\ \E t \in Entries("MIX_CreateTrack"), l \in Entries("MIX_LoadAudio"),
          a \in Entries("MIX_SetTrackAudio"), n \in Entries("SDL_SetNumberProperty"),
          p \in Entries("MIX_PlayTrack"), s \in Entries("*appstate = app"),
          r \in Returned("SDL_AppInit") :
         /\ t < a /\ l < a /\ a < p /\ n < p /\ p < s /\ s < r
         /\ log[t].ret = "ok" /\ log[l].ret = "ok"
         /\ log[a].obj = app.track /\ log[a].args = <<"music">>
         /\ log[n].args = <<"MIX_PROP_PLAY_LOOPS_NUMBER", -1>>
         /\ log[p].obj = app.track /\ log[p].args = <<log[n].obj>>
    /\ \A i \in InCallback("SDL_AppIterate") \cup InCallback("SDL_AppEvent") :
         log[i].op \notin MixerOps
    /\ \A i \in Entries("MIX_StopTrack") : i \in InCallback("SDL_AppQuit")
    /\ Cardinality(Entries("MIX_StopTrack")) <= 1

\* Frames were drawn and events delivered, and SDL_AppQuit stopped the track
C6_Witness ==
  /\ initRet = SDL_APP_CONTINUE
  /\ frames >= 2
  /\ events >= 1
  /\ Ran("MIX_StopTrack")

-----------------------------------------------------------------------------
(* C7: teardown *)

\* The texture name CreateTextureFromSurface bound for a surface
TextureOf(surfaceName) ==
  LET i == CHOOSE k \in EntriesOn("SDL_ConvertSurface", surfaceName) : TRUE
  IN log[i + 2].args[2]

\* Calls ShutdownGL makes in the Emscripten build only, and the conversion
\* of the fade time
IsTeardownStep(c) ==
  c.op \notin {"MIX_TrackMSToFrames", "glDeleteBuffers", "glDeleteProgram"}

\* C7: SDL_AppQuit with a non-null appstate stops the track with a 1000 ms
\* fade and sleeps 1000 ms, deletes the message texture, then the image
\* texture, makes the GL context non-current and destroys it, destroys the
\* window, deletes the AppContext, and calls TTF_Quit, MIX_Quit and SDL_Quit,
\* in this order; SDL_Quit is the last call.
C7_TeardownOrder ==
  (phase = "done" /\ appstate # NULL) =>
    LET steps == Filter(QuitCalls, IsTeardownStep) IN
    /\ OpsOf(steps) =
         <<"MIX_StopTrack", "sleep_for", "glDeleteTextures", "glDeleteTextures",
           "SDL_GL_MakeCurrent", "SDL_GL_DestroyContext", "SDL_DestroyWindow",
           "delete app", "TTF_Quit", "MIX_Quit", "SDL_Quit">>
    /\ steps[1].obj = "track" /\ steps[1].args = <<1000>>
    /\ steps[2].args = <<1000>>
    /\ steps[3].args = <<1, TextureOf("surfaceMessage")>>
    /\ steps[4].args = <<1, TextureOf("svg_surface")>>
    /\ steps[5].obj = "window" /\ steps[5].args = <<NULL>>
    /\ steps[6].obj = "glctx"
    /\ steps[7].obj = "window"
    /\ \A i \in DOMAIN QuitCalls :
         ~IsTeardownStep(QuitCalls[i]) /\ QuitCalls[i].op # "MIX_TrackMSToFrames" =>
           \E j \in DOMAIN QuitCalls :
             i < j /\ QuitCalls[j].op = "SDL_GL_MakeCurrent"
    /\ QuitCalls[Len(QuitCalls)].op = "SDL_Quit"
    /\ textures = {}
    /\ ~appAlive

\* The Emscripten build was torn down after a frame
C7_Witness ==
  /\ phase = "done"
  /\ appstate # NULL
  /\ platform = "emscripten"
  /\ frames >= 1
  /\ Ran("glDeleteProgram")

-----------------------------------------------------------------------------
(* C8: temporaries *)

\* The temporaries: the call that makes each, the object that call acts on,
\* the handle it returns and the call that releases it
Temporaries ==
  {[make |-> "TTF_OpenFont", on |-> "-", handle |-> "font",
    release |-> "TTF_CloseFont"],
   [make |-> "TTF_RenderText_Solid", on |-> "font", handle |-> "surfaceMessage",
    release |-> "SDL_DestroySurface"],
   [make |-> "IMG_Load", on |-> "-", handle |-> "svg_surface",
    release |-> "SDL_DestroySurface"],
   [make |-> "SDL_ConvertSurface", on |-> "surfaceMessage",
    handle |-> RgbaName("surfaceMessage"), release |-> "SDL_DestroySurface"],
   [make |-> "SDL_ConvertSurface", on |-> "svg_surface",
    handle |-> RgbaName("svg_surface"), release |-> "SDL_DestroySurface"]}

Made(t) == \E i \in EntriesOn(t.make, t.on) : log[i].ret = "ok"

Releases(t) == EntriesOn(t.release, t.handle)

\* The calls that use the temporary
Uses(t) == {i \in DOMAIN log : log[i].obj = t.handle}

\* C8: once SDL_AppInit has returned, on whatever path, the font, the text
\* surface, the image surface and each converted RGBA surface that was made
\* has been released exactly once, none that was not made has been released,
\* and none is used after its release.
C8_TemporariesReleased ==
  initRet # "none" =>
    \A t \in Temporaries :
      /\ Cardinality(Releases(t)) = IF Made(t) THEN 1 ELSE 0
      /\ \A r \in Releases(t) : \A u \in Uses(t) : u <= r
      /\ \A r \in Releases(t) : \E m \in EntriesOn(t.make, t.on) : m < r

\* The text surface could not be converted: the font, the text surface are
\* released on the failure path
C8_Witness ==
  /\ initRet = SDL_APP_FAILURE
  /\ StepFailed("CreateTextureFromSurface(text)")
  /\ Cardinality(EntriesOn("TTF_CloseFont", "font")) = 1
  /\ Cardinality(EntriesOn("SDL_DestroySurface", "surfaceMessage")) = 1

-----------------------------------------------------------------------------
(* C9: the zero texture *)

IsGLCall(c) ==
  c.op \in {"glGenTextures", "glBindTexture", "glTexParameteri", "glGetIntegerv",
            "glPixelStorei", "glTexImage2D", "glDeleteTextures"}

\* The surface under test is not null and its conversion succeeds
ProbeConverted ==
  /\ probeIn.surface.name # NULL
  /\ <<"SDL_ConvertSurface", probeIn.surface.name>> \notin probeIn.F

ProbeGenerated == <<"glGenTextures", probeIn.surface.name>> \notin probeIn.F

\* C9: CreateTextureFromSurface of a null surface, or of one whose conversion
\* fails, returns id 0, width 0, height 0, makes no GL call and leaves the GL
\* state as it was; otherwise it returns the generated texture name with the
\* width and height of the converted surface, and GL_UNPACK_ALIGNMENT is what
\* it was before the call; SDL_AppInit returns SDL_APP_FAILURE when a texture
\* has id 0.
C9_ZeroTexture ==
  /\ phase = "texed" =>
       IF ~ProbeConverted
       THEN /\ probeOut.tex = [id |-> 0, width |-> 0, height |-> 0]
            /\ \A i \in DOMAIN probeOut.calls : ~IsGLCall(probeOut.calls[i])
            /\ probeOut.g = probeIn.g
       ELSE /\ probeOut.g.align = probeIn.g.align
            /\ probeOut.tex.width = probeIn.surface.w
            /\ probeOut.tex.height = probeIn.surface.h
            /\ \E i \in DOMAIN probeOut.calls :
                 /\ probeOut.calls[i].op = "glTexImage2D"
                 /\ probeOut.calls[i].args =
                      <<"GL_TEXTURE_2D", "GL_RGBA", probeOut.tex.width, probeOut.tex.height>>
            /\ ProbeGenerated =>
                 /\ probeOut.tex.id # 0
                 /\ probeOut.tex.id \notin probeIn.g.textures
                 /\ probeOut.g.textures = probeIn.g.textures \cup {probeOut.tex.id}
                 /\ \E i \in DOMAIN probeOut.calls :
                      /\ probeOut.calls[i].op = "glBindTexture"
                      /\ probeOut.calls[i].args = <<"GL_TEXTURE_2D", probeOut.tex.id>>
  /\ initRet # "none" =>
       /\ \A step \in TextureSteps : StepFailed(step) => initRet = SDL_APP_FAILURE
       /\ unpackAlign = 4

\* A texture made in a GL state whose alignment is 8 and that holds textures
C9_Witness ==
  /\ phase = "texed"
  /\ ProbeConverted /\ ProbeGenerated
  /\ probeIn.g.align = 8
  /\ probeIn.g.textures = {1, 2}
  /\ probeOut.tex.id = 3

-----------------------------------------------------------------------------
(* C10: failed initialisation *)

\* The calls that release a window, a GL context, a texture or a mixer object
ReleaseOps ==
  {"SDL_DestroyWindow", "SDL_GL_DestroyContext", "glDeleteTextures", "MIX_StopTrack",
   "MIX_DestroyTrack", "MIX_DestroyAudio", "MIX_DestroyMixer", "delete app"}

\* C10: a failure exit of SDL_AppInit leaves *appstate unwritten; SDL_AppQuit
\* with that null appstate calls TTF_Quit, MIX_Quit and SDL_Quit, in this
\* order, and nothing else; the window, GL context, textures and mixer
\* objects made before the failing step are never released.
C10_FailedInit ==
  initRet = SDL_APP_FAILURE =>
    /\ appstate = NULL
    /\ ~appAlive
    /\ ~Ran("*appstate = app")
    /\ phase \in {"initfailed", "done"}
    /\ \A i \in DOMAIN log : log[i].op \notin ReleaseOps
    /\ Cardinality(textures) =
         Cardinality({i \in Entries("glGenTextures") : log[i].ret = "ok"})
    /\ phase = "done" =>
         /\ OpsOf(QuitCalls) = <<"TTF_Quit", "MIX_Quit", "SDL_Quit">>
         /\ \E q \in Entered("SDL_AppQuit") : log[q].args = <<NULL, SDL_APP_FAILURE>>

\* MIX_LoadAudio failed: the window, the context, two textures, the mixer and
\* the track exist and SDL_AppQuit has run
C10_Witness ==
  /\ initRet = SDL_APP_FAILURE
  /\ phase = "done"
  /\ StepFailed("MIX_LoadAudio")
  /\ Cardinality(textures) = 2

=============================================================================
